---------------------------- MODULE Spec2Model ----------------------------
(***************************************************************************)
(* A model of maddr: protocol segments (segment.rs), the S / M stack types *)
(* and their Display implementations (multiaddr.rs).                       *)
(*                                                                         *)
(* Text is a sequence of one-character strings, so that concatenation,     *)
(* prefixes and separators are things the checker can look at.             *)
(***************************************************************************)
EXTENDS Integers, Sequences, FiniteSets, TLC

VARIABLES
    x,      \* the stack the caller built last
    y,      \* a second stack the caller holds (the operand x was built from)
    arg,    \* the segment passed to the last wrap / append
    op,     \* how x was built: "new" (not yet), "wrap", "from", "add", "clone"
    out,    \* text written by the last to_string() of x
    outY,   \* text written by the last to_string() of y
    res     \* result of the last x == y: <<>> (not asked) or <<TRUE>>, <<FALSE>>

vars == <<x, y, arg, op, out, outY, res>>

\* Longest stack the caller builds in Spec.
MaxDepth == 3

\* Longest stack the caller builds in PairSpec.
MaxPairDepth == 2

---------------------------------------------------------------------------
(* Text helpers *)

RECURSIVE Concat(_)
Concat(ss) == IF ss = <<>> THEN <<>> ELSE Head(ss) \o Concat(Tail(ss))

RECURSIVE Join(_, _)
Join(ss, sep) ==
    IF ss = <<>> THEN <<>>
    ELSE IF Len(ss) = 1 THEN ss[1]
    ELSE ss[1] \o sep \o Join(Tail(ss), sep)

DecDigits == <<"0","1","2","3","4","5","6","7","8","9">>

HexDigits == <<"0","1","2","3","4","5","6","7","8","9","a","b","c","d","e","f">>

\* "{}" of an unsigned integer: decimal, no leading zeros.
RECURSIVE Display_uint(_)
Display_uint(n) ==
    IF n < 10 THEN <<DecDigits[n + 1]>>
    ELSE Display_uint(n \div 10) \o <<DecDigits[(n % 10) + 1]>>

\* "{:x}" of an unsigned integer: lowercase hex, no leading zeros.
RECURSIVE LowerHex(_)
LowerHex(n) ==
    IF n < 16 THEN <<HexDigits[n + 1]>>
    ELSE LowerHex(n \div 16) \o <<HexDigits[(n % 16) + 1]>>

\* "{}" of an Ipv4Addr, given as its four octets: dotted quad.
Display_Ipv4Addr(ip) ==
    Join([i \in 1..4 |-> Display_uint(ip[i])], <<".">>)

\* The first longest run of zero groups of an Ipv6Addr: <<start, length>>
\* (start is 1-based; length 0 when there is no zero group).
RECURSIVE ZeroRun(_, _, _, _, _)
ZeroRun(g, i, curAt, curLen, best) ==
    IF i > Len(g) THEN best
    ELSE IF g[i] = 0
         THEN LET at == IF curLen = 0 THEN i ELSE curAt
                  ln == curLen + 1
              IN  ZeroRun(g, i + 1, at, ln,
                          IF ln > best[2] THEN <<at, ln>> ELSE best)
         ELSE ZeroRun(g, i + 1, curAt, 0, best)

HexGroups(g) == Join([i \in 1..Len(g) |-> LowerHex(g[i])], <<":">>)

\* "{}" of an Ipv6Addr, given as its eight 16-bit groups.
Display_Ipv6Addr(g) ==
    LET v4 == <<g[7] \div 256, g[7] % 256, g[8] \div 256, g[8] % 256>>
        run == ZeroRun(g, 1, 1, 0, <<1, 0>>)
    IN  IF SubSeq(g, 1, 7) = <<0,0,0,0,0,0,0>> /\ g[8] \in {0, 1}
        THEN <<":", ":">> \o (IF g[8] = 1 THEN <<"1">> ELSE <<>>)
        ELSE IF SubSeq(g, 1, 6) = <<0,0,0,0,0,0>>
        THEN <<":", ":">> \o Display_Ipv4Addr(v4)
        ELSE IF SubSeq(g, 1, 6) = <<0,0,0,0,0,65535>>
        THEN <<":", ":", "f", "f", "f", "f", ":">> \o Display_Ipv4Addr(v4)
        ELSE IF run[2] > 1
        THEN HexGroups(SubSeq(g, 1, run[1] - 1)) \o <<":", ":">>
             \o HexGroups(SubSeq(g, run[1] + run[2], 8))
        ELSE HexGroups(g)

Base58Alphabet ==
    <<"1","2","3","4","5","6","7","8","9",
      "A","B","C","D","E","F","G","H","J","K","L","M","N","P","Q","R","S",
      "T","U","V","W","X","Y","Z",
      "a","b","c","d","e","f","g","h","i","j","k","m","n","o","p","q","r",
      "s","t","u","v","w","x","y","z">>

\* Long division of a big-endian byte string by 58: <<quotient, remainder>>.
RECURSIVE LongDiv58(_, _, _)
LongDiv58(bytes, rem, quot) ==
    IF bytes = <<>> THEN <<quot, rem>>
    ELSE LET acc == rem * 256 + Head(bytes)
         IN  LongDiv58(Tail(bytes), acc % 58, Append(quot, acc \div 58))

RECURSIVE StripZeros(_)
StripZeros(b) == IF b # <<>> /\ Head(b) = 0 THEN StripZeros(Tail(b)) ELSE b

RECURSIVE Base58Digits(_)
Base58Digits(b) ==
    IF b = <<>> THEN <<>>
    ELSE LET d == LongDiv58(b, 0, <<>>)
         IN  Base58Digits(StripZeros(d[1])) \o <<Base58Alphabet[d[2] + 1]>>

\* Base58 (bitcoin alphabet) of a byte string; a leading zero byte is a "1".
ToBase58(bytes) ==
    LET rest == StripZeros(bytes)
    IN  [i \in 1..(Len(bytes) - Len(rest)) |-> "1"] \o Base58Digits(rest)

\* The bytes of a multihash: the variant's code, the digest length, the digest.
MultiHashBytes(h) ==
    (IF h.variant = "Sha2_256" THEN <<18>> ELSE <<17>>)
    \o <<Len(h.digest)>> \o h.digest

---------------------------------------------------------------------------
(* Input values *)

TestIpv4 == <<1, 2, 3, 4>>

TestIpv6 == <<10754, 1720, 0, 0, 0, 0, 17, 17>>

TestMultiHash ==
    [variant |-> "Sha2_256",
     digest  |-> <<213, 46, 187, 137, 216, 91, 2, 162,
                   132, 148, 130, 3, 166, 47, 242, 131,
                   137, 197, 124, 159, 66, 190, 236, 78,
                   194, 13, 183, 106, 104, 145, 28, 11>>]

PortValues == {22, 65535}

Ipv4Values == {TestIpv4, <<10, 0, 0, 255>>}

Ipv6Values == {TestIpv6, <<8193, 3512, 0, 0, 1, 0, 0, 1>>}

MultiHashValues == {TestMultiHash}

\* "{}" of a MultiHash: computed once per value.
MultiHashText == [h \in MultiHashValues |-> ToBase58(MultiHashBytes(h))]

Display_MultiHash(h) == MultiHashText[h]

---------------------------------------------------------------------------
(* segment.rs: the segment types. A segment value is a record: its type    *)
(* (ty) and its struct fields.                                             *)

Dccp(port) == [ty |-> "Dccp", port |-> port]

Http == [ty |-> "Http"]

Https == [ty |-> "Https"]

IP4(ip) == [ty |-> "IP4", ip |-> ip]

IP6(ip) == [ty |-> "IP6", ip |-> ip]

Ipfs(hash) == [ty |-> "Ipfs", hash |-> hash]

Sctp(port) == [ty |-> "Sctp", port |-> port]

Tcp(port) == [ty |-> "Tcp", port |-> port]

Udp(port) == [ty |-> "Udp", port |-> port]

Udt == [ty |-> "Udt"]

Utp == [ty |-> "Utp"]

\* The segment types the segment! macro is invoked for.
SegmentTypes ==
    {"Dccp", "Http", "Https", "IP4", "IP6", "Ipfs", "Sctp", "Tcp", "Udp",
     "Udt", "Utp"}

\* A registry in which udt's code collides with utp's.
code_dup(T) ==
    CASE T = "Dccp"  -> 33
      [] T = "Http"  -> 480
      [] T = "Https" -> 443
      [] T = "IP4"   -> 4
      [] T = "IP6"   -> 41
      [] T = "Ipfs"  -> 421
      [] T = "Sctp"  -> 132
      [] T = "Tcp"   -> 6
      [] T = "Udp"   -> 17
      [] T = "Udt"   -> 302
      [] T = "Utp"   -> 302

\* Segment::code(), a function of the type alone.
code(T) ==
    CASE T = "Dccp"  -> 33
      [] T = "Http"  -> 480
      [] T = "Https" -> 443
      [] T = "IP4"   -> 4
      [] T = "IP6"   -> 41
      [] T = "Ipfs"  -> 421
      [] T = "Sctp"  -> 132
      [] T = "Tcp"   -> 6
      [] T = "Udp"   -> 17
      [] T = "Udt"   -> 301
      [] T = "Utp"   -> 302

\* A registry in which https is named like http.
name_dup(T) ==
    CASE T = "Dccp"  -> <<"d","c","c","p">>
      [] T = "Http"  -> <<"h","t","t","p">>
      [] T = "Https" -> <<"h","t","t","p">>
      [] T = "IP4"   -> <<"i","p","4">>
      [] T = "IP6"   -> <<"i","p","6">>
      [] T = "Ipfs"  -> <<"i","p","f","s">>
      [] T = "Sctp"  -> <<"s","c","t","p">>
      [] T = "Tcp"   -> <<"t","c","p">>
      [] T = "Udp"   -> <<"u","d","p">>
      [] T = "Udt"   -> <<"u","d","t">>
      [] T = "Utp"   -> <<"u","t","p">>

\* Segment::name(), a function of the type alone.
name(T) ==
    CASE T = "Dccp"  -> <<"d","c","c","p">>
      [] T = "Http"  -> <<"h","t","t","p">>
      [] T = "Https" -> <<"h","t","t","p","s">>
      [] T = "IP4"   -> <<"i","p","4">>
      [] T = "IP6"   -> <<"i","p","6">>
      [] T = "Ipfs"  -> <<"i","p","f","s">>
      [] T = "Sctp"  -> <<"s","c","t","p">>
      [] T = "Tcp"   -> <<"t","c","p">>
      [] T = "Udp"   -> <<"u","d","p">>
      [] T = "Udt"   -> <<"u","d","t">>
      [] T = "Utp"   -> <<"u","t","p">>

\* Segment::data(): the struct's fields in declared order, each with the
\* type whose Display it is rendered by. A unit struct has none.
data(seg) ==
    CASE seg.ty \in {"Dccp", "Sctp", "Tcp", "Udp"}
            -> <<[type |-> "u16", value |-> seg.port]>>
      [] seg.ty = "IP4"  -> <<[type |-> "Ipv4Addr", value |-> seg.ip]>>
      [] seg.ty = "IP6"  -> <<[type |-> "Ipv6Addr", value |-> seg.ip]>>
      [] seg.ty = "Ipfs" -> <<[type |-> "MultiHash", value |-> seg.hash]>>
      [] OTHER -> <<>>

\* "{}" of a &fmt::Display datum: the Display of the field's own type.
Display(datum) ==
    CASE datum.type = "u16"       -> Display_uint(datum.value)
      [] datum.type = "Ipv4Addr"  -> Display_Ipv4Addr(datum.value)
      [] datum.type = "Ipv6Addr"  -> Display_Ipv6Addr(datum.value)
      [] datum.type = "MultiHash" -> Display_MultiHash(datum.value)

\* derive(PartialEq) on a segment struct: field by field; two values of
\* different types are never equal.
segment_eq(a, b) ==
    /\ a.ty = b.ty
    /\ CASE a.ty \in {"Dccp", "Sctp", "Tcp", "Udp"} -> a.port = b.port
         [] a.ty \in {"IP4", "IP6"} -> a.ip = b.ip
         [] a.ty = "Ipfs" -> a.hash = b.hash
         [] OTHER -> TRUE

\* A conversion that drops the address.
IP4_from_zero(ip) == IP4(<<0, 0, 0, 0>>)

\* impl From<Ipv4Addr> for IP4
IP4_from(ip) == IP4(ip)

\* impl From<Ipv6Addr> for IP6
IP6_from(ip) == IP6(ip)

\* From<IpAddr>: the segment of the address's version.
Segment_from_IpAddr(addr) ==
    IF addr.tag = "V4" THEN IP4_from(addr.ip) ELSE IP6_from(addr.ip)

---------------------------------------------------------------------------
(* multiaddr.rs: the stack types S<T> (one segment) and M<T, U> (a stack   *)
(* and one more segment). f0, f1 are the tuple fields .0 and .1.           *)

S(seg) == [tag |-> "S", f0 |-> seg]

\* A cons that keeps the stack and puts its own last segment in place of u.
M_lose(t, u) == [tag |-> "M", f0 |-> t, f1 |-> IF t.tag = "S" THEN t.f0 ELSE t.f1]

M(t, u) == [tag |-> "M", f0 |-> t, f1 |-> u]

\* derive(Clone) on a segment struct.
segment_clone(seg) ==
    CASE seg.ty \in {"Dccp", "Sctp", "Tcp", "Udp"}
            -> [ty |-> seg.ty, port |-> seg.port]
      [] seg.ty \in {"IP4", "IP6"} -> [ty |-> seg.ty, ip |-> seg.ip]
      [] seg.ty = "Ipfs" -> [ty |-> seg.ty, hash |-> seg.hash]
      [] OTHER -> [ty |-> seg.ty]

\* derive(Clone) on S and M.
RECURSIVE clone(_)
clone(s) ==
    IF s.tag = "S" THEN S(segment_clone(s.f0))
    ELSE M(clone(s.f0), segment_clone(s.f1))

\* A leaf rendering without the separator before a field.
fmt_S_nosep(s) ==
    <<"/">> \o name(s.f0.ty)
    \o Concat([i \in 1..Len(data(s.f0)) |-> Display(data(s.f0)[i])])

\* A leaf rendering that closes with a separator.
fmt_S_trailing(s) ==
    <<"/">> \o name(s.f0.ty)
    \o Concat([i \in 1..Len(data(s.f0)) |-> <<"/">> \o Display(data(s.f0)[i])])
    \o <<"/">>

\* impl Display for S<T>: "/" and the name, then "/" and each datum.
fmt_S(s) ==
    <<"/">> \o name(s.f0.ty)
    \o Concat([i \in 1..Len(data(s.f0)) |-> <<"/">> \o Display(data(s.f0)[i])])

RECURSIVE fmt(_)

\* A cons rendering that writes only its last segment.
fmt_M_last(m) == fmt_S(S(segment_clone(m.f1)))

\* A cons rendering that writes the last segment first.
fmt_M_swapped(m) == fmt_S(S(segment_clone(m.f1))) \o fmt(m.f0)

\* impl Display for M<T, U>: the stack self.0, then S(self.1.clone()).
fmt_M(m) == fmt(m.f0) \o fmt_S(S(segment_clone(m.f1)))

\* Display::fmt of a stack of either shape.
fmt(s) == IF s.tag = "S" THEN fmt_S(s) ELSE fmt_M(s)

\* ToString::to_string: what fmt writes into an empty String.
to_string(s) == fmt(s)

RECURSIVE stack_eq(_, _)

\* An equality on M that looks at the last segment only.
M_eq_last(a, b) == segment_eq(a.f1, b.f1)

\* derive(PartialEq) on S: the segments are equal.
S_eq(a, b) == segment_eq(a.f0, b.f0)

\* derive(PartialEq) on M: field .0, then field .1.
M_eq(a, b) == stack_eq(a.f0, b.f0) /\ segment_eq(a.f1, b.f1)

\* == on two stacks; stacks of different types are never equal.
stack_eq(a, b) ==
    /\ a.tag = b.tag
    /\ IF a.tag = "S" THEN S_eq(a, b) ELSE M_eq(a, b)

\* stack + segment
add(s, seg) == M(s, seg)

\* From<T> where Segment: From<T>, for the address types.
MultiAddr_from_Ipv4Addr(ip) == S(IP4_from(ip))

MultiAddr_from_Ipv6Addr(ip) == S(IP6_from(ip))

MultiAddr_from_IpAddr(addr) == S(Segment_from_IpAddr(addr))

---------------------------------------------------------------------------
(* The caller: builds stacks from the values below, renders and compares   *)
(* them.                                                                   *)

Segments ==
    {Dccp(22), Http, Https, Sctp(22), Tcp(22), Udp(22), Udt, Utp}
    \cup {IP4(TestIpv4), IP6(TestIpv6)}
    \cup {Ipfs(h) : h \in MultiHashValues}

IpAddrValues ==
    {[tag |-> "V4", ip |-> a] : a \in Ipv4Values}
    \cup {[tag |-> "V6", ip |-> a] : a \in Ipv6Values}

\* The caller holds no stack / passed no segment.
NoStack == [tag |-> "none"]

NoSegment == [ty |-> "none"]

\* The segments of a stack, first to last.
RECURSIVE Segs(_)
Segs(s) == IF s.tag = "S" THEN <<s.f0>> ELSE Append(Segs(s.f0), s.f1)

Init ==
    /\ x = NoStack
    /\ y = NoStack
    /\ arg = NoSegment
    /\ op = "new"
    /\ out = <<>>
    /\ outY = <<>>
    /\ res = <<>>

\* let x = S(seg)
WrapOp(seg) ==
    /\ x = NoStack
    /\ x' = S(seg)
    /\ y' = NoStack
    /\ arg' = seg
    /\ op' = "wrap"
    /\ out' = <<>>
    /\ outY' = <<>>
    /\ res' = <<>>

\* let x = MultiAddr::from(ip), ip an Ipv4Addr
FromIpv4Op(ip) ==
    /\ x = NoStack
    /\ x' = MultiAddr_from_Ipv4Addr(ip)
    /\ y' = NoStack
    /\ arg' = [ty |-> "Ipv4Addr", ip |-> ip]
    /\ op' = "from"
    /\ out' = <<>>
    /\ outY' = <<>>
    /\ res' = <<>>

\* let x = MultiAddr::from(ip), ip an Ipv6Addr
FromIpv6Op(ip) ==
    /\ x = NoStack
    /\ x' = MultiAddr_from_Ipv6Addr(ip)
    /\ y' = NoStack
    /\ arg' = [ty |-> "Ipv6Addr", ip |-> ip]
    /\ op' = "from"
    /\ out' = <<>>
    /\ outY' = <<>>
    /\ res' = <<>>

\* let x = MultiAddr::from(addr), addr an IpAddr
FromIpAddrOp(addr) ==
    /\ x = NoStack
    /\ x' = MultiAddr_from_IpAddr(addr)
    /\ y' = NoStack
    /\ arg' = [ty |-> "IpAddr", tag |-> addr.tag, ip |-> addr.ip]
    /\ op' = "from"
    /\ out' = <<>>
    /\ outY' = <<>>
    /\ res' = <<>>

\* let y = x.clone(); let x = y.clone() + seg: the operand stays with the
\* caller as y, and so does the text it was rendered to.
AddOp(seg) ==
    /\ x # NoStack
    /\ Len(Segs(x)) < MaxDepth
    /\ x' = add(clone(x), seg)
    /\ y' = x
    /\ arg' = seg
    /\ op' = "add"
    /\ out' = <<>>
    /\ outY' = out
    /\ res' = <<>>

\* let y = x; let x = y.clone()
CloneOp ==
    /\ x # NoStack
    /\ op # "clone"
    /\ x' = clone(x)
    /\ y' = x
    /\ arg' = NoSegment
    /\ op' = "clone"
    /\ out' = <<>>
    /\ outY' = out
    /\ res' = <<>>

\* A to_string that takes the stack apart while writing it.
FmtOp_consuming ==
    /\ x # NoStack
    /\ out' = to_string(x)
    /\ x' = IF x.tag = "M" THEN x.f0 ELSE x
    /\ UNCHANGED <<y, arg, op, outY, res>>

\* out = x.to_string(): fmt borrows the stack (&self) and writes to out.
FmtOp ==
    /\ x # NoStack
    /\ out' = to_string(x)
    /\ UNCHANGED <<x, y, arg, op, outY, res>>

\* outY = y.to_string()
FmtYOp ==
    /\ y # NoStack
    /\ outY' = to_string(y)
    /\ UNCHANGED <<x, y, arg, op, out, res>>

\* res = (x == y), asked right after x was built from y
EqOp ==
    /\ op \in {"add", "clone"}
    /\ res' = <<stack_eq(x, y)>>
    /\ UNCHANGED <<x, y, arg, op, out, outY>>

Next ==
    \/ \E seg \in Segments : WrapOp(seg)
    \/ \E ip \in Ipv4Values : FromIpv4Op(ip)
    \/ \E ip \in Ipv6Values : FromIpv6Op(ip)
    \/ \E addr \in IpAddrValues : FromIpAddrOp(addr)
    \/ \E seg \in Segments : AddOp(seg)
    \/ CloneOp
    \/ FmtOp
    \/ FmtYOp
    \/ EqOp

Spec == Init /\ [][Next]_vars

---------------------------------------------------------------------------
(* A second caller: builds two stacks x and y independently, then compares *)
(* them and renders both.                                                  *)

PairSegments ==
    {Http, Https, Udt, Udp(22), IP4(TestIpv4)} \cup {Tcp(p) : p \in PortValues}

\* let x = S(seg)
PairWrapX(seg) ==
    /\ x = NoStack
    /\ x' = S(seg)
    /\ op' = "wrap"
    /\ UNCHANGED <<y, arg, out, outY, res>>

\* let y = S(seg)
PairWrapY(seg) ==
    /\ y = NoStack
    /\ y' = S(seg)
    /\ UNCHANGED <<x, arg, op, out, outY, res>>

\* let y = x.clone()
PairCloneY ==
    /\ x # NoStack
    /\ y = NoStack
    /\ y' = clone(x)
    /\ UNCHANGED <<x, arg, op, out, outY, res>>

\* let x = x + seg
PairAddX(seg) ==
    /\ x # NoStack
    /\ res = <<>>
    /\ Len(Segs(x)) < MaxPairDepth
    /\ x' = add(x, seg)
    /\ op' = "add"
    /\ UNCHANGED <<y, arg, out, outY, res>>

\* let y = y + seg
PairAddY(seg) ==
    /\ y # NoStack
    /\ res = <<>>
    /\ Len(Segs(y)) < MaxPairDepth
    /\ y' = add(y, seg)
    /\ UNCHANGED <<x, arg, op, out, outY, res>>

\* res = (x == y); out = x.to_string(); outY = y.to_string()
PairCompareOp ==
    /\ x # NoStack
    /\ y # NoStack
    /\ res = <<>>
    /\ res' = <<stack_eq(x, y)>>
    /\ out' = to_string(x)
    /\ outY' = to_string(y)
    /\ UNCHANGED <<x, y, arg, op>>

PairNext ==
    \/ \E seg \in PairSegments : PairWrapX(seg)
    \/ \E seg \in PairSegments : PairWrapY(seg)
    \/ PairCloneY
    \/ \E seg \in PairSegments : PairAddX(seg)
    \/ \E seg \in PairSegments : PairAddY(seg)
    \/ PairCompareOp

PairSpec == Init /\ [][PairNext]_vars

RECURSIVE StacksOfDepth(_, _)
StacksOfDepth(segs, n) ==
    IF n = 1 THEN {S(s) : s \in segs}
    ELSE {M(t, u) : t \in StacksOfDepth(segs, n - 1), u \in segs}

\* Every stack the second caller can build.
PairStacks == UNION {StacksOfDepth(PairSegments, n) : n \in 1..MaxPairDepth}

---------------------------------------------------------------------------
(* Expected texts *)

Ip4Text == <<"/","i","p","4","/","1",".","2",".","3",".","4">>

Ip6Text == <<"/","i","p","6","/","2","a","0","2",":","6","b","8",":",":","1","1",":","1","1">>

IpfsText == 
    <<"/","i","p","f","s","/","Q","m","c","g","p","s","y","W","g","H","8","Y","8","a","j","J","z","1","C","u","7","2","K","n","S","5","u","o","2","A","a","2","L","p","z","U","7","k","i","n","S","u","p","N","K","C">>

Ip4TcpText == <<"/","i","p","4","/","1",".","2",".","3",".","4","/","t","c","p","/","2","2">>

\* Number of struct fields of a segment type.
Arity(T) == IF T \in {"Http", "Https", "Udt", "Utp"} THEN 0 ELSE 1

\* The one field of a one-field segment, as text.
FieldText(seg) ==
    CASE seg.ty \in {"Dccp", "Sctp", "Tcp", "Udp"} -> Display_uint(seg.port)
      [] seg.ty = "IP4"  -> Display_Ipv4Addr(seg.ip)
      [] seg.ty = "IP6"  -> Display_Ipv6Addr(seg.ip)
      [] seg.ty = "Ipfs" -> Display_MultiHash(seg.hash)

\* "/<name>" of every registry kind, written out.
SlashName(T) ==
    CASE T = "Dccp"  -> <<"/","d","c","c","p">>
      [] T = "Http"  -> <<"/","h","t","t","p">>
      [] T = "Https" -> <<"/","h","t","t","p","s">>
      [] T = "IP4"   -> <<"/","i","p","4">>
      [] T = "IP6"   -> <<"/","i","p","6">>
      [] T = "Ipfs"  -> <<"/","i","p","f","s">>
      [] T = "Sctp"  -> <<"/","s","c","t","p">>
      [] T = "Tcp"   -> <<"/","t","c","p">>
      [] T = "Udp"   -> <<"/","u","d","p">>
      [] T = "Udt"   -> <<"/","u","d","t">>
      [] T = "Utp"   -> <<"/","u","t","p">>

\* What C2 says a one-segment stack renders to.
LeafText(seg) ==
    IF Arity(seg.ty) = 0 THEN SlashName(seg.ty)
    ELSE SlashName(seg.ty) \o <<"/">> \o FieldText(seg)

\* Number of "/" in a text.
Slashes(s) == Cardinality({i \in 1..Len(s) : s[i] = "/"})

\* x has been rendered since it was built.
Rendered == x # NoStack /\ out # <<>>

---------------------------------------------------------------------------
(* Claims *)

C2_LeafRender ==
    Rendered /\ x.tag = "S" =>
      /\ out = LeafText(x.f0)
      /\ x.f0 = IP4(TestIpv4) => out = Ip4Text
      /\ x.f0 = IP6(TestIpv6) => out = Ip6Text
      /\ x.f0 = Ipfs(TestMultiHash) => out = IpfsText
      /\ Arity(x.f0.ty) = 0 => out[Len(out)] # "/" /\ Slashes(out) = 1

C2_Witness ==
    /\ Rendered
    /\ x = S(IP6(TestIpv6))
    /\ out = Ip6Text

\* C3: append succeeds for every stack and every segment, whatever their
\* kinds, and yields the segments of the operand followed by the new one:
\* one segment longer, never empty.
C3_AppendExtends ==
    x # NoStack =>
      /\ Len(Segs(x)) >= 1
      /\ \A seg \in Segments :
            /\ Segs(add(x, seg)) = Append(Segs(x), seg)
            /\ Len(Segs(add(x, seg))) = Len(Segs(x)) + 1
      /\ op = "add" =>
            /\ Segs(x) = Append(Segs(y), arg)
            /\ Len(Segs(x)) = Len(Segs(y)) + 1
      /\ op = "add" /\ y = MultiAddr_from_Ipv4Addr(TestIpv4) /\ arg = Tcp(22)
            => Segs(x) = <<[ty |-> "IP4", ip |-> <<1, 2, 3, 4>>],
                           [ty |-> "Tcp", port |-> 22]>>

C3_Witness ==
    /\ op = "add"
    /\ y = MultiAddr_from_Ipv4Addr(TestIpv4)
    /\ arg = Tcp(22)
    /\ Len(Segs(x)) = 2

TextsCurrent ==
    /\ out # <<>> => x # NoStack /\ out = to_string(x)
    /\ outY # <<>> => y # NoStack /\ outY = to_string(y)

\* A step leaves the stacks the caller holds as they were: a clone or an
\* append keeps the operand (as y) and an append only adds a last segment;
\* rendering and comparing change no stack.
StacksKept ==
    x # NoStack =>
      IF op' = "clone" /\ op # "clone" THEN x' = x /\ y' = x
      ELSE IF x' # x THEN y' = x /\ Segs(x') = Append(Segs(x), arg')
      ELSE y' = y

C6_Equals ==
    res # <<>> =>
      /\ res[1] = (Segs(x) = Segs(y))
      /\ res[1] = (/\ Len(Segs(x)) = Len(Segs(y))
                   /\ \A i \in 1..Len(Segs(x)) :
                         /\ Segs(x)[i].ty = Segs(y)[i].ty
                         /\ data(Segs(x)[i]) = data(Segs(y)[i]))
      /\ stack_eq(y, x) = res[1]
      /\ stack_eq(x, x) /\ stack_eq(y, y)
      /\ stack_eq(clone(x), x) /\ stack_eq(x, clone(x))
      /\ stack_eq(S(Segs(x)[1]), S(Segs(x)[1]))
      /\ res[1] => \A z \in PairStacks : stack_eq(y, z) = stack_eq(x, z)

C6_Witness ==
    /\ res = <<TRUE>>
    /\ Len(Segs(x)) = 2
    /\ Segs(x)[2] = Tcp(65535)

RegistryTable ==
    {<<"Dccp", 33, <<"d","c","c","p">>>>,
     <<"Http", 480, <<"h","t","t","p">>>>,
     <<"Https", 443, <<"h","t","t","p","s">>>>,
     <<"IP4", 4, <<"i","p","4">>>>,
     <<"IP6", 41, <<"i","p","6">>>>,
     <<"Ipfs", 421, <<"i","p","f","s">>>>,
     <<"Sctp", 132, <<"s","c","t","p">>>>,
     <<"Tcp", 6, <<"t","c","p">>>>,
     <<"Udp", 17, <<"u","d","p">>>>,
     <<"Udt", 301, <<"u","d","t">>>>,
     <<"Utp", 302, <<"u","t","p">>>>}

RegistryExact ==
    /\ {<<T, code(T), name(T)>> : T \in SegmentTypes} = RegistryTable
    /\ Cardinality(SegmentTypes) = 11

RegistryUnique ==
    \A T, U \in SegmentTypes :
        T # U => code(T) # code(U) /\ name(T) # name(U)

\* C8: the registry is exactly the eleven kinds with these codes and names;
\* no two kinds share a code or a name, and every segment of a stack has the
\* code and name of its kind whatever its field data.
C8_Registry ==
    /\ RegistryExact
    /\ RegistryUnique
    /\ x # NoStack =>
          \A i \in 1..Len(Segs(x)) :
             <<Segs(x)[i].ty, code(Segs(x)[i].ty), name(Segs(x)[i].ty)>>
                \in RegistryTable

C8_Witness ==
    /\ x # NoStack
    /\ Len(Segs(x)) = 3
    /\ Segs(x)[1] = IP4(<<10, 0, 0, 255>>)
    /\ Segs(x)[2] = IP4(TestIpv4)
    /\ Segs(x)[3] = Udt

\* C9: a conversion picks the kind from the address version and keeps the
\* address: Ipv4Addr a gives ip4 a, Ipv6Addr a gives ip6 a, IpAddr V4(a)
\* gives ip4 a and V6(a) gives ip6 a; converting into a stack gives the
\* one-segment stack of that segment.
C9_Conversions ==
    op = "from" =>
      /\ x.tag = "S"
      /\ arg.ty = "Ipv4Addr" => x.f0 = [ty |-> "IP4", ip |-> arg.ip]
      /\ arg.ty = "Ipv6Addr" => x.f0 = [ty |-> "IP6", ip |-> arg.ip]
      /\ arg.ty = "IpAddr" /\ arg.tag = "V4"
            => x.f0 = [ty |-> "IP4", ip |-> arg.ip]
      /\ arg.ty = "IpAddr" /\ arg.tag = "V6"
            => x.f0 = [ty |-> "IP6", ip |-> arg.ip]
      /\ stack_eq(x, S(x.f0))

C9_Witness ==
    /\ op = "from"
    /\ arg.ty = "Ipv4Addr"
    /\ arg.ip = <<10, 0, 0, 255>>
    /\ x = S(IP4(<<10, 0, 0, 255>>))

=============================================================================
